---- MODULE Spec2Model ----
(***************************************************************************)
(* Model of packages/hardhat-viem/src/internal/tasks.ts:                   *)
(*   - the three compile-pipeline overrides that generate and prune the    *)
(*     typing declaration files (TASK_COMPILE_SOLIDITY,                    *)
(*     TASK_COMPILE_SOLIDITY_EMIT_ARTIFACTS,                               *)
(*     TASK_COMPILE_REMOVE_OBSOLETE_ARTIFACTS);                            *)
(*   - the version notifier (showNewVersionNotification).                  *)
(* Strings are sequences of one-character strings, paths are sequences of  *)
(* path segments, so that endsWith, join, dirname and relative are         *)
(* computed rather than assumed.                                           *)
(***************************************************************************)
EXTENDS Integers, Sequences, FiniteSets, TLC

(***************************************************************************)
(* Strings and paths                                                       *)
(***************************************************************************)

\* The strings the model uses, spelled out character by character.
sA == <<"A">>
sB == <<"B">>
sC == <<"C">>
sX == <<"X">>
sY == <<"Y">>
sZ == <<"Z">>
sFile == <<"f", "i", "l", "e">>
sArtifacts == <<"a", "r", "t", "i", "f", "a", "c", "t", "s">>
sDTs == <<".", "d", ".", "t", "s">>
sJson == <<".", "j", "s", "o", "n">>
sFileDTs == sFile \o sDTs
sArtifactsDTs == sArtifacts \o sDTs

\* String.prototype.endsWith
EndsWith(s, suffix) ==
    /\ Len(s) >= Len(suffix)
    /\ SubSeq(s, Len(s) - Len(suffix) + 1, Len(s)) = suffix

\* A path as the string the file system API hands out: segments joined by "/".
RECURSIVE PathString(_)
PathString(p) ==
    IF Len(p) = 0 THEN <<>>
    ELSE IF Len(p) = 1 THEN p[1]
    ELSE p[1] \o <<"/">> \o PathString(Tail(p))

\* String.prototype.split("/") on a string without empty segments
RECURSIVE Segments(_, _)
Segments(s, cur) ==
    IF Len(s) = 0 THEN (IF Len(cur) = 0 THEN <<>> ELSE <<cur>>)
    ELSE IF Head(s) = "/"
         THEN (IF Len(cur) = 0 THEN <<>> ELSE <<cur>>) \o Segments(Tail(s), <<>>)
         ELSE Segments(Tail(s), Append(cur, Head(s)))

\* path.join(dir, name): dir is a path, name a string that may hold "/"
join(dir, name) == dir \o Segments(name, <<>>)

\* path.dirname
dirname(p) == SubSeq(p, 1, Len(p) - 1)

IsPrefix(a, b) == Len(a) <= Len(b) /\ SubSeq(b, 1, Len(a)) = a

\* path.relative(from, to) for a target at or below from: the rest, as a string
relative(from, to) == PathString(SubSeq(to, Len(from) + 1, Len(to)))

\* config.paths.artifacts
ArtifactsPath == <<sArtifacts>>

(***************************************************************************)
(* Name Resolver (hardhat/utils/contract-names)                            *)
(***************************************************************************)

\* `${sourceName}:${contractName}`
getFullyQualifiedName(sourceName, contractName) ==
    sourceName \o <<":">> \o contractName

\* String.prototype.lastIndexOf for one character, 0 when there is none
lastIndexOf(s, ch) ==
    IF \E i \in 1..Len(s) : s[i] = ch
    THEN CHOOSE i \in 1..Len(s) :
            /\ s[i] = ch
            /\ \A j \in (i + 1)..Len(s) : s[j] # ch
    ELSE 0

\* the parts before and after the last ":" of a fully qualified name
parseFullyQualifiedName(fqn) ==
    LET k == lastIndexOf(fqn, ":")
    IN [sourceName |-> SubSeq(fqn, 1, k - 1),
        contractName |-> SubSeq(fqn, k + 1, Len(fqn))]

\* Array.prototype.indexOf: the first position holding x, 0 when there is none
\* (positions are 1-based here)
indexOf(seq, x) ==
    IF \E i \in 1..Len(seq) : seq[i] = x
    THEN CHOOSE i \in 1..Len(seq) :
            /\ seq[i] = x
            /\ \A j \in 1..(i - 1) : seq[j] # x
    ELSE 0

\* Array.prototype.filter: the elements at the kept positions, in order
RECURSIVE FilterAt(_, _, _)
FilterAt(seq, i, kept) ==
    IF i > Len(seq) THEN <<>>
    ELSE (IF i \in kept THEN <<seq[i]>> ELSE <<>>) \o FilterAt(seq, i + 1, kept)

includes(seq, x) == \E i \in 1..Len(seq) : seq[i] = x

\* contractNames.filter((name, i) => contractNames.indexOf(name) === i)
DupFilterFirstOccurrences(contractNames) ==
    FilterAt(contractNames, 1,
             {i \in 1..Len(contractNames) :
                 indexOf(contractNames, contractNames[i]) = i})

(***************************************************************************)
(* Generated texts.  A text is modelled by the parts of it that vary: the  *)
(* fixed banner and the fixed template lines are left out.                 *)
(***************************************************************************)

\* Array.prototype.map to a sequence
MapSeq(seq, F(_)) == [i \in 1..Len(seq) |-> F(seq[i])]

\* artifact.abi.find(({ type }) => type === "constructor"), position or 0
FindConstructor(abi) ==
    IF \E i \in 1..Len(abi) : abi[i].type = "constructor"
    THEN CHOOSE i \in 1..Len(abi) :
            /\ abi[i].type = "constructor"
            /\ \A j \in 1..(i - 1) : abi[j].type # "constructor"
    ELSE 0

\* a variant that takes a single input for none
ConstructorArgsOfMoreThanOne(abi) ==
    LET k == FindConstructor(abi)
        inputs == IF k # 0 THEN abi[k].inputs ELSE <<>>
        Elem(inp) == [name |-> inp.name, type |-> inp.type]
    IN IF Len(inputs) > 1
       THEN [optional |-> FALSE, elems |-> MapSeq(inputs, Elem)]
       ELSE [optional |-> TRUE, elems |-> <<>>]

\* the constructorArgs parameter of the deploy signature
ConstructorArgsOf(abi) ==
    LET k == FindConstructor(abi)
        inputs == IF k # 0 THEN abi[k].inputs ELSE <<>>
        Elem(inp) == [name |-> inp.name, type |-> inp.type]
    IN IF Len(inputs) > 0
       THEN [optional |-> FALSE, elems |-> MapSeq(inputs, Elem)]
       ELSE [optional |-> TRUE, elems |-> <<>>]

\* a variant that offers the bare name whatever isDup says
ValidNamesIgnoringDup(artifact, isDup) ==
    <<artifact.contractName,
      getFullyQualifiedName(artifact.sourceName, artifact.contractName)>>

\* const validNames = isDup ? [fqn] : [contractName, fqn]
ValidNames(artifact, isDup) ==
    LET fqn == getFullyQualifiedName(artifact.sourceName, artifact.contractName)
    IN IF isDup THEN <<fqn>> ELSE <<artifact.contractName, fqn>>

\* one deployContract and one getContractAt overload per valid name
generateContractDeclaration(artifact, isDup) ==
    [kind |-> "contractDeclaration",
     contractTypeName |-> artifact.contractName \o <<"$", "T", "y", "p", "e">>,
     json |-> artifact,
     constructorArgs |-> ConstructorArgsOf(artifact.abi),
     deployContract |-> ValidNames(artifact, isDup),
     getContractAt |-> ValidNames(artifact, isDup)]

\* the per-source aggregate: imports, then bare-name keys, then qualified keys
generateDTsFile(contractTypeData) ==
    LET Import(ctd) == [typeName |-> ctd.typeName, from |-> ctd.contractName]
        Bare(ctd) == [key |-> ctd.contractName, typeName |-> ctd.typeName]
        Qualified(ctd) == [key |-> ctd.fqn, typeName |-> ctd.typeName]
    IN [kind |-> "sourceAggregate",
        imports |-> MapSeq(contractTypeData, Import),
        entries |-> MapSeq(contractTypeData, Bare)
                    \o MapSeq(contractTypeData, Qualified)]

\* a variant that marks the first occurrences instead of the later ones
generateArtifactsDefinitionFirst(contractNames) ==
    [kind |-> "globalAggregate",
     never |-> DupFilterFirstOccurrences(contractNames)]

\* the global aggregate: one `${name}: never;` line per kept list position
generateArtifactsDefinition(contractNames) ==
    [kind |-> "globalAggregate",
     never |-> FilterAt(contractNames, 1,
                        {i \in 1..Len(contractNames) :
                            indexOf(contractNames, contractNames[i]) # i})]

(***************************************************************************)
(* State                                                                   *)
(***************************************************************************)

VARIABLES
    \* --- declaration generation (the compile pipeline) ---
    project,        \* the contracts of the user's project: [sourceName, contractName]
    fs,             \* the files under the artifacts path: path -> content
    dirs,           \* the directories that exist
    phase,          \* "idle", "emitting", "emitted"
    runs,           \* compile runs started
    emittedAll,     \* this run emitted every source file of the project
    contractNames,  \* the emit override's contractNames list
    emitted,        \* the source files of artifactsEmittedPerFile
    writes,         \* the writeFile calls of the emit override and their status
    emitResult,     \* "none", "returned", "raised"
    failures,       \* writes that failed so far
    pruneDone,      \* the remove-obsolete-artifacts step ran in this run
    globalDone,     \* the compile-solidity override finished in this run
    generated,      \* sources whose output directory the emit override made
    existingSourceFiles, \* the Pruner's valid source names (last run of it)
    removedDirs,    \* the directories the Pruner removed (last run of it)
    \* --- the global aggregate on its own ---
    fqnsIn,         \* a list of fully qualified names
    artifactsDTs,   \* the text generated from it
    \* --- the declaration generator on its own ---
    declIn,         \* an artifact and its isDup flag, or nothing
    declOut,        \* the declaration generated from it
    \* --- the version notifier ---
    cacheFile,      \* version-notifier.json in the cache directory
    now,            \* the clock, in milliseconds
    ticks,          \* clock advances so far
    inv             \* what the last invocation since the last advance did

varsCompile ==
    <<project, fs, dirs, phase, runs, emittedAll, contractNames, emitted, writes,
      emitResult, failures, pruneDone, globalDone, generated,
      existingSourceFiles, removedDirs>>

varsGlobal == <<fqnsIn, artifactsDTs, declIn, declOut>>

varsNotifier == <<cacheFile, now, ticks, inv>>

vars == <<varsCompile, varsGlobal, varsNotifier>>

None == "none"

(***************************************************************************)
(* The project and the artifact store (host side)                          *)
(***************************************************************************)

MaxRuns == 2

MaxWriteFailures == 2

Sources == {sX, sY}

ContractNames == {sA, sFile}

\* the ABI the compiler produces for a contract of the given name
AbiOf(contractName) ==
    IF contractName = sA THEN <<>>
    ELSE IF contractName = sFile
    THEN <<[type |-> "constructor",
            inputs |-> <<[name |-> "owner", type |-> "address"]>>]>>
    ELSE <<[type |-> "constructor", inputs |-> <<>>]>>

Artifact(sourceName, contractName) ==
    [sourceName |-> sourceName, contractName |-> contractName,
     abi |-> AbiOf(contractName)]

\* a project: at most one contract per source file
ProjectsOver(names) ==
    {p \in SUBSET (Sources \X names) :
        \A a \in p, b \in p : a[1] = b[1] => a = b}

Projects == ProjectsOver(ContractNames)

\* a total order on strings, to list sets the way the host sorts them
Rank(str) ==
    CASE str = sA -> 1 [] str = sB -> 2 [] str = sC -> 3
      [] str = sFile -> 4 [] str = sArtifacts -> 5
      [] str = sX -> 6 [] str = sY -> 7 [] str = sZ -> 8
      [] OTHER -> 9

ArtifactKey(a) == Rank(a.sourceName) * 10 + Rank(a.contractName)

RECURSIVE SortedArtifacts(_)
SortedArtifacts(S) ==
    IF S = {} THEN <<>>
    ELSE LET m == CHOOSE x \in S : \A y \in S : ArtifactKey(x) <= ArtifactKey(y)
         IN <<m>> \o SortedArtifacts(S \ {m})

ArtifactPath(sourceName, contractName) ==
    join(join(ArtifactsPath, sourceName), contractName \o sJson)

\* artifacts.getAllFullyQualifiedNames(): one name per artifact file, sorted
getAllFullyQualifiedNames(files) ==
    LET arts == {files[p].artifact : p \in {q \in DOMAIN files : files[q].kind = "artifact"}}
        Fqn(a) == getFullyQualifiedName(a.sourceName, a.contractName)
    IN MapSeq(SortedArtifacts(arts), Fqn)

\* artifacts.readArtifact(fqn)
readArtifact(files, fqn) ==
    LET n == parseFullyQualifiedName(fqn)
    IN files[ArtifactPath(n.sourceName, n.contractName)].artifact

Ancestors(p) == {SubSeq(p, 1, k) : k \in 1..Len(p)}

Under(dir, p) == IsPrefix(dir, p)

\* fs.writeFile on a map of files
Put(files, path, content) ==
    [p \in DOMAIN files \cup {path} |-> IF p = path THEN content ELSE files[p]]

\* several files at once; `news` is a set of [path, content] with distinct paths
PutAll(files, news) ==
    [p \in DOMAIN files \cup {n.path : n \in news} |->
        IF \E n \in news : n.path = p
        THEN (CHOOSE n \in news : n.path = p).content
        ELSE files[p]]

\* rm(dir, { force: true, recursive: true }) on the files
RmFiles(files, dir) ==
    [p \in {q \in DOMAIN files : ~Under(dir, q)} |-> files[p]]

RmDirs(ds, dir) == {d \in ds : ~Under(dir, d)}

(***************************************************************************)
(* TASK_COMPILE_SOLIDITY_EMIT_ARTIFACTS override (the Per-Source           *)
(* Aggregator)                                                             *)
(***************************************************************************)

\* files that something other than this plugin left under the artifacts path
ForeignFiles == {join(ArtifactsPath, sFileDTs)}

EmptyFiles == [p \in {} |-> None]

ContractsOf(proj, sourceName) == {a[2] : a \in {b \in proj : b[1] = sourceName}}

\* the contracts whose artifact files are on disk for a source
OnDisk(files, sourceName) ==
    {files[p].artifact.contractName :
        p \in {q \in DOMAIN files :
                 /\ files[q].kind = "artifact"
                 /\ files[q].artifact.sourceName = sourceName}}

RECURSIVE SortedNames(_)
SortedNames(S) ==
    IF S = {} THEN <<>>
    ELSE LET m == CHOOSE x \in S : \A y \in S : Rank(x) <= Rank(y)
         IN <<m>> \o SortedNames(S \ {m})

\* const dupContractNames = contractNames.filter(
\*   (name, i) => contractNames.indexOf(name) !== i)
dupContractNames(names) ==
    FilterAt(names, 1, {i \in 1..Len(names) : indexOf(names, names[i]) # i})

\* artifactsEmitted.map(...): one record per emitted contract of the unit
ContractTypeData(files, sourceName, artifactsEmitted, dups) ==
    LET One(contractName) ==
            LET fqn == getFullyQualifiedName(sourceName, contractName)
                artifact == readArtifact(files, fqn)
                isDup == includes(dups, contractName)
            IN [contractName |-> contractName,
                fqn |-> fqn,
                typeName |-> contractName \o <<"$", "T", "y", "p", "e">>,
                declaration |-> generateContractDeclaration(artifact, isDup)]
    IN MapSeq(artifactsEmitted, One)

\* the writeFile calls a unit pushes to fp, in order, all started at once
UnitWrites(files, sourceName, artifactsEmitted, dups) ==
    LET srcDir == join(ArtifactsPath, sourceName)
        ctd == ContractTypeData(files, sourceName, artifactsEmitted, dups)
        n == Len(ctd)
    IN {[unit |-> sourceName, idx |-> i,
         path |-> join(srcDir, ctd[i].contractName \o sDTs),
         content |-> ctd[i].declaration,
         status |-> "pending"] : i \in 1..n}
       \cup
       {[unit |-> sourceName, idx |-> n + 1,
         path |-> join(srcDir, sArtifactsDTs),
         content |-> generateDTsFile(ctd),
         status |-> "pending"]}

Pending == {w \in writes : w.status = "pending"}

\* One compile run starts: the host compiles the project `proj`, saves the
\* artifacts of the sources that changed (runSuper), then the override
\* computes the duplicates, makes each unit's directory and starts all its
\* writes.
EmitArtifacts(proj) ==
    /\ phase = "idle"
    /\ runs < MaxRuns
    /\ LET srcs == {src \in Sources : ContractsOf(proj, src) # {}}
           changed == {src \in srcs : ContractsOf(proj, src) # OnDisk(fs, src)}
           saved == {[path |-> ArtifactPath(a[1], a[2]),
                      content |-> [kind |-> "artifact",
                                   artifact |-> Artifact(a[1], a[2])]] :
                        a \in {b \in proj : b[1] \in changed}}
           fs1 == PutAll(fs, saved)
           fqns == getAllFullyQualifiedNames(fs1)
           ContractNameOf(fqn) == parseFullyQualifiedName(fqn).contractName
           names == MapSeq(fqns, ContractNameOf)
           dups == dupContractNames(names)
       IN /\ project' = proj
          /\ fs' = fs1
          /\ dirs' = dirs \cup UNION {Ancestors(join(ArtifactsPath, src)) : src \in changed}
          /\ contractNames' = names
          /\ emitted' = changed
          /\ emittedAll' = (changed = srcs)
          /\ writes' = UNION {UnitWrites(fs1, src, SortedNames(ContractsOf(proj, src)), dups) :
                                src \in changed}
          /\ generated' = generated \cup changed
    /\ phase' = "emitting"
    /\ runs' = runs + 1
    /\ emitResult' = None
    /\ pruneDone' = FALSE
    /\ globalDone' = FALSE
    /\ existingSourceFiles' = {}
    /\ removedDirs' = {}
    /\ UNCHANGED <<failures, varsGlobal, varsNotifier>>

\* The writes are to distinct files of distinct directories except where a
\* unit's own paths coincide, so the order in which they settle is fixed
\* here: by unit, then by position in fp.
NextToSettle ==
    CHOOSE w \in Pending :
        \A v \in Pending :
            \/ Rank(w.unit) < Rank(v.unit)
            \/ w.unit = v.unit /\ w.idx <= v.idx

\* Writes to one path race: any of them may be the next to settle.
Settleable == {w \in Pending : w.path = NextToSettle.path}

\* One writeFile call settles.  It can fail at any time; it fails for certain
\* when its directory is gone.
WriteSettle(ok) ==
    /\ Pending # {}
    /\ \E w \in Settleable :
          /\ ok => dirname(w.path) \in dirs
          /\ ~ok => failures < MaxWriteFailures
          /\ writes' = (writes \ {w})
                       \cup {[w EXCEPT !.status = IF ok THEN "done" ELSE "failed"]}
          /\ fs' = IF ok THEN Put(fs, w.path, w.content) ELSE fs
          /\ failures' = IF ok THEN failures ELSE failures + 1
    /\ UNCHANGED <<project, dirs, phase, runs, emittedAll, contractNames, emitted,
                   emitResult, pruneDone, globalDone, generated,
                   existingSourceFiles, removedDirs, varsGlobal, varsNotifier>>

\* Promise.all(fp): rejected with the first failure, fulfilled when all are done
PromiseAll(ws) ==
    IF \E w \in ws : w.status = "failed" THEN "rejected"
    ELSE IF \A w \in ws : w.status = "done" THEN "fulfilled"
    ELSE "pending"

\* a variant without the try/catch around the await
UnitAfterWritesUncaught(outcome) ==
    IF outcome = "rejected" THEN "rejected" ELSE "resolved"

\* try { await Promise.all(fp) } catch (error) { console.error(...) }
UnitAfterWrites(outcome) ==
    IF outcome = "rejected" THEN "resolved" ELSE "resolved"

\* what a unit's async function has come to
UnitState(src) ==
    LET outcome == PromiseAll({w \in writes : w.unit = src})
    IN IF outcome = "pending" THEN "writing" ELSE UnitAfterWrites(outcome)

\* The outer Promise.all over the units ends and the override returns the
\* emission records, or raises what a unit raised.
EmitReturn ==
    /\ phase = "emitting"
    /\ LET rejected == \E src \in emitted : UnitState(src) = "rejected"
       IN /\ rejected \/ \A src \in emitted : UnitState(src) = "resolved"
          /\ emitResult' = IF rejected THEN "raised" ELSE "returned"
          /\ phase' = IF rejected THEN "idle" ELSE "emitted"
    /\ UNCHANGED <<project, fs, dirs, runs, emittedAll, contractNames, emitted,
                   writes, failures, pruneDone, globalDone, generated,
                   existingSourceFiles, removedDirs, varsGlobal, varsNotifier>>

(***************************************************************************)
(* TASK_COMPILE_SOLIDITY override (the Global Aggregator)                  *)
(***************************************************************************)

\* the override's body after runSuper: the text it hands to writeFile
GlobalArtifactsDTs(fqns) ==
    LET ContractNameOf(fqn) == parseFullyQualifiedName(fqn).contractName
    IN generateArtifactsDefinition(MapSeq(fqns, ContractNameOf))

GlobalPath == join(ArtifactsPath, sArtifactsDTs)

\* The tail of the override, after the host's compile step (the emit step
\* included) returned: write the global aggregate; a failing write is logged
\* and swallowed.
CompileSolidity(ok) ==
    /\ phase = "emitted"
    /\ ~globalDone
    /\ ok => ArtifactsPath \in dirs
    /\ ~ok => failures < MaxWriteFailures
    /\ fs' = IF ok
             THEN Put(fs, GlobalPath, GlobalArtifactsDTs(getAllFullyQualifiedNames(fs)))
             ELSE fs
    /\ failures' = IF ok THEN failures ELSE failures + 1
    /\ globalDone' = TRUE
    /\ UNCHANGED <<project, dirs, phase, runs, emittedAll, contractNames, emitted,
                   writes, emitResult, pruneDone, generated,
                   existingSourceFiles, removedDirs, varsGlobal, varsNotifier>>

(***************************************************************************)
(* TASK_COMPILE_REMOVE_OBSOLETE_ARTIFACTS override (the Stale-Output       *)
(* Pruner)                                                                 *)
(***************************************************************************)

\* runSuper(): the host removes the artifact files of contracts that are no
\* longer in the project, then the directories left empty
RemoveObsoleteFiles(files, proj) ==
    [p \in {q \in DOMAIN files :
              files[q].kind = "artifact" =>
                 <<files[q].artifact.sourceName, files[q].artifact.contractName>> \in proj}
       |-> files[p]]

RemoveEmptyDirs(ds, files) ==
    {d \in ds : d = ArtifactsPath \/ \E p \in DOMAIN files : Under(d, p)}

\* the order in which the directory walk lists the matching files
RECURSIVE SortedPaths(_)
SortedPaths(S) ==
    IF S = {} THEN <<>>
    ELSE LET m == CHOOSE x \in S : \A y \in S :
                     \/ Len(x) < Len(y)
                     \/ Len(x) = Len(y) /\ Rank(x[Len(x) - 1]) <= Rank(y[Len(y) - 1])
         IN <<m>> \o SortedPaths(S \ {m})

\* (f) => f.endsWith("file.d.ts")
MatchesSentinel(f) == EndsWith(PathString(f), sFileDTs)

\* getAllFilesMatching(config.paths.artifacts, (f) => f.endsWith("file.d.ts"))
allFilesDTs(files) == SortedPaths({f \in DOMAIN files : MatchesSentinel(f)})

\* if (!existingSourceFiles.has(sourceName))
ShouldRemove(existing, sourceName) == sourceName \notin existing

\* the for loop over allFilesDTs: st is [files, ds, removed]
RECURSIVE PruneLoop(_, _, _, _)
PruneLoop(found, i, existing, st) ==
    IF i > Len(found) THEN st
    ELSE LET dir == dirname(found[i])
             sourceName == relative(ArtifactsPath, dir)
         IN IF ShouldRemove(existing, sourceName)
            THEN PruneLoop(found, i + 1, existing,
                           [files |-> RmFiles(st.files, dir),
                            ds |-> RmDirs(st.ds, dir),
                            removed |-> st.removed \cup {dir}])
            ELSE PruneLoop(found, i + 1, existing, st)

\* The host's clean-up (runSuper), then the override's own pruning.
RemoveObsoleteArtifacts ==
    /\ phase = "emitted"
    /\ globalDone
    /\ ~pruneDone
    /\ LET fs1 == RemoveObsoleteFiles(fs, project)
           dirs1 == RemoveEmptyDirs(dirs, fs1)
           fqns == getAllFullyQualifiedNames(fs1)
           SourceNameOf(fqn) == parseFullyQualifiedName(fqn).sourceName
           existing == {SourceNameOf(fqns[i]) : i \in 1..Len(fqns)}
           st == PruneLoop(allFilesDTs(fs1), 1, existing,
                           [files |-> fs1, ds |-> dirs1, removed |-> {}])
       IN /\ fs' = st.files
          /\ dirs' = st.ds
          /\ existingSourceFiles' = existing
          /\ removedDirs' = st.removed
    /\ pruneDone' = TRUE
    /\ UNCHANGED <<project, phase, runs, emittedAll, contractNames, emitted, writes,
                   emitResult, failures, globalDone, generated, varsGlobal, varsNotifier>>

\* The compile task ends once the started writes have settled; what the run
\* kept in memory is gone.
FinishRun ==
    /\ phase = "emitted"
    /\ pruneDone
    /\ Pending = {}
    /\ phase' = "idle"
    /\ writes' = {}
    /\ emitted' = {}
    /\ contractNames' = <<>>
    /\ emittedAll' = FALSE
    /\ emitResult' = None
    /\ existingSourceFiles' = {}
    /\ removedDirs' = {}
    /\ pruneDone' = FALSE
    /\ globalDone' = FALSE
    /\ UNCHANGED <<project, fs, dirs, runs, failures, generated, varsGlobal,
                   varsNotifier>>

(***************************************************************************)
(* The version notifier                                                    *)
(***************************************************************************)

V3_RELEASE_MAX_TIMES_SHOWN == 5

OneHour == 1000 * 60 * 60

\* const oneDay = 1000 * 60 * 60 * 24
OneDay == 1000 * 60 * 60 * 24

\* an optional value: <<>> is undefined, <<x>> is x
Undefined == <<>>
Some(x) == <<x>>
IsDefined(opt) == Len(opt) = 1

\* JSON values of the two kinds lastCheck and v3TimesShown can have
JsNum(n) == [type |-> "number", num |-> n, iso |-> <<>>]
JsStr(iso) == [type |-> "string", num |-> 0, iso |-> iso]

\* Date.prototype.toISOString: days since the epoch (standing for the
\* calendar date), hours, minutes, seconds, milliseconds
toISOString(t) ==
    JsStr(<<t \div OneDay, (t % OneDay) \div OneHour, (t % OneHour) \div 60000,
            (t % 60000) \div 1000, t % 1000>>)

\* new Date(value).getTime() for a number or an ISO string
DateTime(v) ==
    IF v.type = "number" THEN v.num
    ELSE v.iso[1] * OneDay + v.iso[2] * OneHour + v.iso[3] * 60000
         + v.iso[4] * 1000 + v.iso[5]

\* getHardhatVersion(): the running tool, 2.1
hardhatVersion == <<2, 1>>

\* semver.valid: a version here is <<major, minor>>, anything else is invalid
semverValid(v) == Len(v) = 2

semverMajor(v) == v[1]

semverGt(a, b) == a[1] > b[1] \/ (a[1] = b[1] /\ a[2] > b[2])

GITHUB_REPO == "hardhat"

AssetName == "version-notifier-message.txt"

\* a release descriptor; tag_name is kept as its parts around "@"
Release(pkg, version, draft, prerelease, published_at, assets) ==
    [tag_name |-> <<pkg, version>>, draft |-> draft, prerelease |-> prerelease,
     published_at |-> published_at, assets |-> assets]

\* releases the remote list can hold: a stable 2.2 published first, a stable
\* 2.0 patch published after it, a 2.3 prerelease, the stable 3.0
ReleaseHi == Release("hardhat", <<2, 2>>, FALSE, FALSE, 1, <<>>)
ReleaseLo == Release("hardhat", <<2, 0>>, FALSE, FALSE, 2, <<>>)
ReleasePre == Release("hardhat", <<2, 3>>, FALSE, TRUE, 3, <<>>)
ReleaseV3 == Release("hardhat", <<3, 0>>, FALSE, FALSE, 3, <<AssetName>>)
ReleaseV3NoAsset == Release("hardhat", <<3, 0>>, FALSE, FALSE, 3, <<"notes.txt">>)

ReleasePool == {ReleaseHi, ReleaseLo, ReleasePre}

MaxReleases == 2

ReleaseLists ==
    {l \in UNION {[1..n -> ReleasePool] : n \in 0..MaxReleases} :
        \A i \in 1..Len(l), j \in 1..Len(l) : i # j => l[i] # l[j]}

\* what the release-list request comes to: it throws, or its body is a list,
\* or its body is JSON that is no list (an API error object)
ReleasesResponses ==
    {[kind |-> "fail", list |-> <<>>], [kind |-> "object", list |-> <<>>]}
    \cup {[kind |-> "list", list |-> l] : l \in ReleaseLists}

\* what the pinned-release request comes to
V3Responses ==
    {[kind |-> "fail", release |-> Undefined],
     [kind |-> "notFound", release |-> Undefined],
     [kind |-> "found", release |-> Some(ReleaseV3)],
     [kind |-> "found", release |-> Some(ReleaseV3NoAsset)]}

MessageText == "hardhat 3 is out"

\* the version-notifier.json texts this program writes, as the properties
\* they hold; an undefined property is left out by JSON.stringify
JSONstringify(cache) ==
    [kind |-> "json",
     lastCheck |-> Some(cache.lastCheck),
     v3TimesShown |-> Some(JsNum(cache.v3TimesShown)),
     v3Release |-> cache.v3Release,
     v3ReleaseMessage |-> cache.v3ReleaseMessage]

NoFile(kind) ==
    [kind |-> kind, lastCheck |-> Undefined, v3TimesShown |-> Undefined,
     v3Release |-> Undefined, v3ReleaseMessage |-> Undefined]

\* readCache: the defaults unless the file reads and parses; of the parsed
\* object only lastCheck and v3TimesShown are taken
readCache(file, readOk) ==
    IF ~readOk \/ file.kind # "json"
    THEN [lastCheck |-> JsNum(0), v3TimesShown |-> 0,
          v3Release |-> Undefined, v3ReleaseMessage |-> Undefined]
    ELSE [lastCheck |-> IF IsDefined(file.lastCheck) /\ file.lastCheck[1].type = "string"
                        THEN file.lastCheck[1] ELSE JsNum(0),
          v3TimesShown |-> IF IsDefined(file.v3TimesShown)
                              /\ file.v3TimesShown[1].type = "number"
                           THEN file.v3TimesShown[1].num ELSE 0,
          v3Release |-> Undefined,
          v3ReleaseMessage |-> Undefined]

\* writeCache: mkdir and writeFile in a try/catch
writeCache(file, cache, writeOk) ==
    IF writeOk THEN JSONstringify(cache) ELSE file

\* Array.prototype.sort with (a, b) => b.published_at - a.published_at:
\* a stable sort, latest first
RECURSIVE InsertByPublished(_, _)
InsertByPublished(sorted, r) ==
    IF Len(sorted) = 0 THEN <<r>>
    ELSE IF Head(sorted).published_at < r.published_at
         THEN <<r>> \o sorted
         ELSE <<Head(sorted)>> \o InsertByPublished(Tail(sorted), r)

RECURSIVE SortByPublished(_, _)
SortByPublished(list, i) ==
    IF i = 0 THEN <<>>
    ELSE InsertByPublished(SortByPublished(list, i - 1), list[i])

\* getReleases: [raised, releases]
getReleases(resp) ==
    IF resp.kind = "object"
    THEN [raised |-> TRUE, releases |-> <<>>]
    ELSE [raised |-> FALSE,
          releases |-> SortByPublished(IF resp.kind = "list" THEN resp.list ELSE <<>>,
                                       IF resp.kind = "list" THEN Len(resp.list) ELSE 0)]

\* the predicate of releases.find
IsStableV2(release) ==
    /\ ~(release.draft \/ release.prerelease)
    /\ release.tag_name[1] = GITHUB_REPO
    /\ semverValid(release.tag_name[2])
    /\ semverMajor(release.tag_name[2]) = 2

\* Array.prototype.find: the first match, undefined when there is none
FindStableV2(releases) ==
    IF \E i \in 1..Len(releases) : IsStableV2(releases[i])
    THEN Some(releases[CHOOSE i \in 1..Len(releases) :
                          /\ IsStableV2(releases[i])
                          /\ \A j \in 1..(i - 1) : ~IsStableV2(releases[j])])
    ELSE Undefined

\* getV3Release: failures and "Not Found" both come out undefined
getV3Release(v3resp) ==
    IF v3resp.kind = "found" THEN v3resp.release ELSE Undefined

HasNotifierAsset(release) ==
    \E i \in 1..Len(release.assets) : release.assets[i] = AssetName

\* getV3ReleaseMessage: undefined without the asset or when the download fails
getV3ReleaseMessage(release, assetOk) ==
    IF HasNotifierAsset(release) /\ assetOk THEN Some(MessageText) ELSE Undefined

\* a variant with <= in place of <
BelowCapInclusive(timesShown) == timesShown <= V3_RELEASE_MAX_TIMES_SHOWN

\* cache.v3TimesShown < V3_RELEASE_MAX_TIMES_SHOWN
BelowCap(timesShown) == timesShown < V3_RELEASE_MAX_TIMES_SHOWN

\* a variant with <= in place of <
GuardActiveInclusive(elapsed) == elapsed <= OneDay

\* a variant that takes one hour for the day
GuardActiveOneHour(elapsed) == elapsed < OneHour

\* now.getTime() - lastCheckDate.getTime() < oneDay
GuardActive(elapsed) == elapsed < OneDay

\* a variant that returns early when either release is undefined
NothingFoundEither(latestV2Release, v3Release) ==
    ~IsDefined(latestV2Release) \/ ~IsDefined(v3Release)

\* latestV2Release === undefined && v3Release === undefined
NothingFound(latestV2Release, v3Release) ==
    ~IsDefined(latestV2Release) /\ ~IsDefined(v3Release)

\* a variant with the operands of semver.gt swapped
Lane1PrintsSwapped(latestV2Release) ==
    /\ IsDefined(latestV2Release)
    /\ semverValid(latestV2Release[1].tag_name[2])
    /\ semverGt(hardhatVersion, latestV2Release[1].tag_name[2])

\* releaseVersion !== null && semver.gt(releaseVersion, hardhatVersion)
Lane1Prints(latestV2Release) ==
    /\ IsDefined(latestV2Release)
    /\ semverValid(latestV2Release[1].tag_name[2])
    /\ semverGt(latestV2Release[1].tag_name[2], hardhatVersion)

\* showNewVersionNotification, as the record of what one call does:
\* guard (it returned at the guard), calls (the requests made), printed (the
\* notices, in order), raised, wrote (writeCache was called), written (the
\* object handed to it), file (version-notifier.json afterwards)
showNewVersionNotification(file, t, readOk, resp, v3resp, assetOk, writeOk) ==
    LET cache == readCache(file, readOk)
        elapsed == t - DateTime(cache.lastCheck)
        quiet == [guard |-> FALSE, calls |-> {}, printed |-> <<>>, raised |-> FALSE,
                  wrote |-> FALSE, written |-> Undefined, file |-> file]
    IN IF GuardActive(elapsed) THEN [quiet EXCEPT !.guard = TRUE]
       ELSE
       LET got == getReleases(resp)
       IN IF got.raised
          THEN [quiet EXCEPT !.calls = {"releases"}, !.raised = TRUE]
          ELSE
          LET latestV2Release == FindStableV2(got.releases)
              lookup == ~IsDefined(cache.v3Release)
              v3Release == IF lookup THEN getV3Release(v3resp) ELSE cache.v3Release
              calls1 == {"releases"} \cup (IF lookup THEN {"v3release"} ELSE {})
          IN IF NothingFound(latestV2Release, v3Release)
             THEN [quiet EXCEPT !.calls = calls1]
             ELSE
             LET printed1 == IF Lane1Prints(latestV2Release) THEN <<"v2">> ELSE <<>>
                 lane2 == /\ IsDefined(v3Release)
                          /\ semverValid(v3Release[1].tag_name[2])
                          /\ BelowCap(cache.v3TimesShown)
                 download == /\ lane2
                             /\ ~IsDefined(cache.v3ReleaseMessage)
                 message == IF ~lane2 THEN cache.v3ReleaseMessage
                            ELSE IF download
                                 THEN getV3ReleaseMessage(v3Release[1], assetOk)
                                 ELSE cache.v3ReleaseMessage
                 shows == lane2 /\ IsDefined(message)
                 calls2 == calls1 \cup
                           (IF download /\ HasNotifierAsset(v3Release[1])
                            THEN {"asset"} ELSE {})
                 written == [lastCheck |-> toISOString(t),
                             v3TimesShown |-> IF shows THEN cache.v3TimesShown + 1
                                              ELSE cache.v3TimesShown,
                             v3Release |-> v3Release,
                             v3ReleaseMessage |-> message]
             IN [guard |-> FALSE,
                 calls |-> calls2,
                 printed |-> printed1 \o (IF shows THEN <<"v3">> ELSE <<>>),
                 raised |-> FALSE,
                 wrote |-> TRUE,
                 written |-> Some(written),
                 file |-> writeCache(file, written, writeOk)]

MaxTicks == 1

\* the clock when the model starts
StartTime == 3 * OneDay

TimeSteps == {OneDay - OneHour, OneDay - 1, OneDay, OneDay + OneHour}

\* version-notifier.json as earlier invocations of this program left it:
\* checked 25 hours ago, the pinned release cached, the message shown k times
WrittenEarlier(k) ==
    JSONstringify([lastCheck |-> toISOString(StartTime - OneDay - OneHour),
                   v3TimesShown |-> k,
                   v3Release |-> Some(ReleaseV3),
                   v3ReleaseMessage |-> IF k > 0 THEN Some(MessageText) ELSE Undefined])

NoInvocation ==
    [active |-> FALSE, at |-> 0, file |-> NoFile("absent"), readOk |-> TRUE,
     writeOk |-> TRUE, assetOk |-> TRUE,
     resp |-> [kind |-> "fail", list |-> <<>>],
     v3resp |-> [kind |-> "fail", release |-> Undefined],
     guard |-> FALSE, calls |-> {}, printed |-> <<>>, raised |-> FALSE,
     wrote |-> FALSE, written |-> Undefined]

NotifierIdle ==
    /\ cacheFile = NoFile("absent")
    /\ now = StartTime
    /\ ticks = 0
    /\ inv = NoInvocation

InitNotifier ==
    /\ cacheFile \in {NoFile("absent"), NoFile("malformed")}
                     \cup {WrittenEarlier(k) : k \in 0..V3_RELEASE_MAX_TIMES_SHOWN}
    /\ now = StartTime
    /\ ticks = 0
    /\ inv = NoInvocation

\* Time passes between two invocations.
Tick(step) ==
    /\ ticks < MaxTicks
    /\ now' = now + step
    /\ ticks' = ticks + 1
    /\ inv' = NoInvocation
    /\ UNCHANGED <<cacheFile, varsCompile, varsGlobal>>

\* One call of showNewVersionNotification.
Invoke(readOk, resp, v3resp, assetOk, writeOk) ==
    /\ ~inv.active
    /\ LET r == showNewVersionNotification(cacheFile, now, readOk, resp, v3resp,
                                           assetOk, writeOk)
       IN /\ cacheFile' = r.file
          /\ inv' = [active |-> TRUE, at |-> now, file |-> cacheFile,
                     readOk |-> readOk, writeOk |-> writeOk, assetOk |-> assetOk,
                     resp |-> resp, v3resp |-> v3resp,
                     guard |-> r.guard, calls |-> r.calls, printed |-> r.printed,
                     raised |-> r.raised, wrote |-> r.wrote, written |-> r.written]
    /\ UNCHANGED <<now, ticks, varsCompile, varsGlobal>>

CompileIdle ==
    /\ project = {}
    /\ dirs = {ArtifactsPath}
    /\ phase = "idle"
    /\ runs = 0
    /\ emittedAll = FALSE
    /\ contractNames = <<>>
    /\ emitted = {}
    /\ writes = {}
    /\ emitResult = None
    /\ failures = 0
    /\ pruneDone = FALSE
    /\ globalDone = FALSE
    /\ generated = {}
    /\ existingSourceFiles = {}
    /\ removedDirs = {}

\* no text generated yet
NoText == [kind |-> "none"]

DeclIdle ==
    /\ declIn = <<>>
    /\ declOut = NoText

GlobalIdle ==
    /\ fqnsIn = <<>>
    /\ artifactsDTs = NoText
    /\ DeclIdle

InitCompile ==
    /\ CompileIdle
    /\ \E F \in SUBSET ForeignFiles :
          fs = PutAll(EmptyFiles, {[path |-> f, content |-> [kind |-> "foreign"]] : f \in F})
    /\ GlobalIdle
    /\ NotifierIdle

NextCompile ==
    \/ \E proj \in Projects : EmitArtifacts(proj)
    \/ \E ok \in BOOLEAN : WriteSettle(ok)
    \/ EmitReturn
    \/ \E ok \in BOOLEAN : CompileSolidity(ok)
    \/ RemoveObsoleteArtifacts
    \/ FinishRun

SpecCompile == InitCompile /\ [][NextCompile]_vars

(***************************************************************************)
(* The compile pipeline on projects with a contract named "artifacts"      *)
(***************************************************************************)

\* contract names as Solidity allows them: any identifier
PathContractNames == {sA, sArtifacts}

NextEmitPaths ==
    \/ \E proj \in ProjectsOver(PathContractNames) : EmitArtifacts(proj)
    \/ \E ok \in BOOLEAN : WriteSettle(ok)
    \/ EmitReturn
    \/ \E ok \in BOOLEAN : CompileSolidity(ok)
    \/ RemoveObsoleteArtifacts
    \/ FinishRun

SpecEmitPaths == InitCompile /\ [][NextEmitPaths]_vars

(***************************************************************************)
(* The Global Aggregator on arbitrary lists of fully qualified names       *)
(***************************************************************************)

MaxListLen == 4

ListNames == {sA, sB, sC}

Digits == <<"1", "2", "3", "4", "5", "6", "7", "8", "9">>

\* a source name of its own for every list position, so that the fully
\* qualified names of a list are distinct whatever the contract names
SourceAt(i) == <<"S", Digits[i]>>

NameLists == UNION {[1..n -> ListNames] : n \in 0..MaxListLen}

FqnsOf(names) == [i \in 1..Len(names) |-> getFullyQualifiedName(SourceAt(i), names[i])]

\* the contract names of fqnsIn, read off the names the way the tests do
NamesIn == [i \in 1..Len(fqnsIn) |-> SubSeq(fqnsIn[i], 4, Len(fqnsIn[i]))]

InitGlobal ==
    /\ CompileIdle
    /\ fs = EmptyFiles
    /\ \E names \in NameLists : fqnsIn = FqnsOf(names)
    /\ artifactsDTs = NoText
    /\ DeclIdle
    /\ NotifierIdle

\* the override's body: contract names from the fully qualified names, then
\* the text of the global aggregate
GenerateGlobal ==
    /\ artifactsDTs.kind = "none"
    /\ artifactsDTs' = GlobalArtifactsDTs(fqnsIn)
    /\ UNCHANGED <<fqnsIn, declIn, declOut, varsCompile, varsNotifier>>

NextGlobal == GenerateGlobal

SpecGlobal == InitGlobal /\ [][NextGlobal]_vars

(***************************************************************************)
(* The Declaration Generator on arbitrary artifacts                        *)
(***************************************************************************)

MaxAbiLen == 2

MaxInputs == 2

\* constructor inputs as the compiler lists them
AbiParams ==
    {[internalType |-> "address", name |-> "owner", type |-> "address"],
     [internalType |-> "uint256", name |-> "amount", type |-> "uint256"],
     [internalType |-> "contract IERC20", name |-> "", type |-> "address"]}

AbiEntries ==
    {[type |-> "function", inputs |-> <<[internalType |-> "uint256",
                                          name |-> "amount", type |-> "uint256"]>>]}
    \cup {[type |-> "constructor", inputs |-> inputs] :
            inputs \in UNION {[1..n -> AbiParams] : n \in 0..MaxInputs}}

\* the ABIs of a contract: any entries, at most one constructor among them
Abis ==
    {abi \in UNION {[1..n -> AbiEntries] : n \in 0..MaxAbiLen} :
        \A i, j \in 1..Len(abi) :
            (abi[i].type = "constructor" /\ abi[j].type = "constructor") => i = j}

InitDecl ==
    /\ CompileIdle
    /\ fs = EmptyFiles
    /\ fqnsIn = <<>>
    /\ artifactsDTs = NoText
    /\ \E abi \in Abis, contractName \in ContractNames, isDup \in BOOLEAN :
          declIn = <<[artifact |-> [sourceName |-> sX, contractName |-> contractName,
                                    abi |-> abi],
                      isDup |-> isDup]>>
    /\ declOut = NoText
    /\ NotifierIdle

\* one call of generateContractDeclaration
GenerateDeclaration ==
    /\ declIn # <<>>
    /\ declOut.kind = "none"
    /\ declOut' = generateContractDeclaration(declIn[1].artifact, declIn[1].isDup)
    /\ UNCHANGED <<declIn, fqnsIn, artifactsDTs, varsCompile, varsNotifier>>

NextDecl == GenerateDeclaration

SpecDecl == InitDecl /\ [][NextDecl]_vars

(***************************************************************************)
(* The notifier's specification                                            *)
(***************************************************************************)

InitNotifierSpec ==
    /\ CompileIdle
    /\ fs = EmptyFiles
    /\ GlobalIdle
    /\ InitNotifier

NextNotifier ==
    \/ \E step \in TimeSteps : Tick(step)
    \/ \E readOk \in BOOLEAN, resp \in ReleasesResponses, v3resp \in V3Responses,
          assetOk \in BOOLEAN, writeOk \in BOOLEAN :
          Invoke(readOk, resp, v3resp, assetOk, writeOk)

SpecNotifier == InitNotifierSpec /\ [][NextNotifier]_vars

(***************************************************************************)
(* Properties                                                              *)
(***************************************************************************)

Elems(seq) == {seq[i] : i \in 1..Len(seq)}

Count(seq, x) == Cardinality({i \in 1..Len(seq) : seq[i] = x})

DeclPath(sourceName, contractName) ==
    join(join(ArtifactsPath, sourceName), contractName \o sDTs)

\* C1: in a run that emits every source file, the declaration written for a
\* contract declares deployContract and getContractAt for its qualified name
\* always, and for its bare name if and only if the bare name occurs exactly
\* once in the list of contract names of all artifacts.
C1_DeclaredNames ==
    (emittedAll /\ phase # "idle") =>
        \A a \in project :
            \E w \in writes :
                /\ w.unit = a[1]
                /\ w.path = DeclPath(a[1], a[2])
                /\ w.content.kind = "contractDeclaration"
                /\ LET fqn == a[1] \o <<":">> \o a[2]
                       expected == IF Count(contractNames, a[2]) = 1
                                   THEN {a[2], fqn} ELSE {fqn}
                   IN /\ Elems(w.content.deployContract) = expected
                      /\ Elems(w.content.getContractAt) = expected
                      /\ Len(w.content.deployContract) = Cardinality(expected)
                      /\ Len(w.content.getContractAt) = Cardinality(expected)

\* two contracts named A in the sources X and Y, both emitted and written,
\* both declarations naming the qualified form only
C1_Witness ==
    /\ emittedAll
    /\ project = {<<sX, sA>>, <<sY, sA>>}
    /\ \A src \in {sX, sY} :
          /\ DeclPath(src, sA) \in DOMAIN fs
          /\ fs[DeclPath(src, sA)].kind = "contractDeclaration"
          /\ fs[DeclPath(src, sA)].deployContract = <<src \o <<":">> \o sA>>
          /\ \E w \in writes : w.path = DeclPath(src, sA) /\ w.status = "done"

\* C2: the names the global aggregate marks never are exactly the names that
\* occur at more than one position of the list; for [A, B, A, C] exactly A.
C2_NeverSet ==
    artifactsDTs.kind = "globalAggregate" =>
        /\ Elems(artifactsDTs.never) =
              {n \in Elems(NamesIn) : Count(NamesIn, n) > 1}
        /\ NamesIn = <<sA, sB, sA, sC>> => Elems(artifactsDTs.never) = {sA}

C2_Witness ==
    /\ NamesIn = <<sA, sB, sA, sC>>
    /\ artifactsDTs.kind = "globalAggregate"
    /\ artifactsDTs.never = <<sA>>

\* C3: after the Pruner finished, the output directory of every source that
\* the emit override generated and that is absent from the current source
\* names no longer exists.
C3_StaleDirRemoved ==
    pruneDone =>
        \A src \in generated :
            src \notin existingSourceFiles =>
                join(ArtifactsPath, src) \notin dirs

\* C4: the Pruner removes no directory of a valid source and nothing but
\* per-source output directories: the files of valid source directories and
\* the top-level artifacts.d.ts are not under anything it removed.
C4_PrunerFrame ==
    pruneDone =>
        \A dir \in removedDirs :
            /\ dir # ArtifactsPath
            /\ ~Under(dir, GlobalPath)
            /\ \A src \in existingSourceFiles :
                  ~Under(dir, join(ArtifactsPath, src))

\* C10: whatever writes fail, the emit override does not raise, every write
\* of every emitted unit is started, and the writes that do not fail put
\* their text on disk.
C10_WritesSurviveFailures ==
    /\ emitResult # "raised"
    /\ phase # "idle" =>
          \A src \in emitted :
              \A path \in {DeclPath(src, c) : c \in ContractsOf(project, src)}
                          \cup {join(join(ArtifactsPath, src), sArtifactsDTs)} :
                  \E w \in writes : w.unit = src /\ w.path = path
    /\ (phase # "idle" /\ ~pruneDone) =>
          \A w \in writes :
              w.status = "done" => w.path \in DOMAIN fs /\ fs[w.path] = w.content

\* the override returned although a write of unit X failed; the other write
\* of X and a write of unit Y are on disk
C10_Witness ==
    /\ emitResult = "returned"
    /\ ~pruneDone
    /\ \E w \in writes : w.unit = sX /\ w.status = "failed"
    /\ \E w \in writes : w.unit = sX /\ w.status = "done" /\ fs[w.path] = w.content
    /\ \E w \in writes : w.unit = sY /\ w.status = "done" /\ fs[w.path] = w.content

\* what the last invocation read as lastCheck, as a time
LastCheckRead == DateTime(readCache(inv.file, inv.readOk).lastCheck)

Elapsed == inv.at - LastCheckRead

ShownIn(file) ==
    IF file.kind = "json" /\ IsDefined(file.v3TimesShown)
    THEN file.v3TimesShown[1].num ELSE 0

\* the most recently published stable release of the 2.x line is newer than
\* the running tool
LatestStableIsNewer(list) ==
    \E i \in 1..Len(list) :
        /\ IsStableV2(list[i])
        /\ semverGt(list[i].tag_name[2], hardhatVersion)
        /\ \A j \in 1..Len(list) :
              IsStableV2(list[j]) => list[j].published_at <= list[i].published_at

\* some stable release of the 2.x line in the list is newer than the running
\* tool
SomeStableIsNewer(list) ==
    \E i \in 1..Len(list) :
        IsStableV2(list[i]) /\ semverGt(list[i].tag_name[2], hardhatVersion)

\* C5: an invocation with now - lastCheck < 1 day makes no request, prints
\* nothing and leaves version-notifier.json as it was.
C5_GuardQuiet ==
    (inv.active /\ Elapsed < OneDay) =>
        /\ inv.guard
        /\ inv.calls = {}
        /\ inv.printed = <<>>
        /\ ~inv.wrote
        /\ ~inv.raised
        /\ cacheFile = inv.file

\* 23 hours after a check that was written to the cache
C5_Witness ==
    /\ inv.active
    /\ inv.readOk
    /\ inv.file.kind = "json"
    /\ Elapsed = OneDay - OneHour
    /\ inv.guard
    /\ cacheFile = inv.file

SomeReleaseFound ==
    \/ inv.resp.kind = "list" /\ \E i \in 1..Len(inv.resp.list) : IsStableV2(inv.resp.list[i])
    \/ inv.v3resp.kind = "found"

C7_CapHolds ==
    /\ ShownIn(cacheFile) <= V3_RELEASE_MAX_TIMES_SHOWN
    /\ (inv.active /\ inv.readOk /\ ShownIn(inv.file) = V3_RELEASE_MAX_TIMES_SHOWN) =>
          /\ \A i \in 1..Len(inv.printed) : inv.printed[i] # "v3"
          /\ ShownIn(cacheFile) = V3_RELEASE_MAX_TIMES_SHOWN
    /\ (inv.active /\ ~inv.guard /\ ~inv.raised) =>
          ((\E i \in 1..Len(inv.printed) : inv.printed[i] = "v2")
             <=> (inv.resp.kind = "list" /\ LatestStableIsNewer(inv.resp.list)))

\* the count read is 5, the pinned release and its message are there to be
\* had, and only the new-release notice is printed
C7_Witness ==
    /\ inv.active
    /\ inv.readOk
    /\ inv.writeOk
    /\ ShownIn(inv.file) = V3_RELEASE_MAX_TIMES_SHOWN
    /\ ~inv.guard
    /\ inv.v3resp = [kind |-> "found", release |-> Some(ReleaseV3)]
    /\ inv.assetOk
    /\ inv.printed = <<"v2">>
    /\ ShownIn(cacheFile) = V3_RELEASE_MAX_TIMES_SHOWN

\* C8: an invocation that passes the guard over a cache file holding
\* v3Release makes no pinned-release request, and one over a file holding
\* v3ReleaseMessage makes no asset request.
C8_ReusesCache ==
    (inv.active /\ inv.readOk /\ ~inv.guard /\ ~inv.raised) =>
        /\ IsDefined(inv.file.v3Release) => "v3release" \notin inv.calls
        /\ IsDefined(inv.file.v3ReleaseMessage) => "asset" \notin inv.calls

ConstructorInputs(abi) ==
    IF \E i \in 1..Len(abi) : abi[i].type = "constructor"
    THEN abi[CHOOSE i \in 1..Len(abi) : abi[i].type = "constructor"].inputs
    ELSE <<>>

\* C11: the deploy signature's argument list is optional and empty exactly
\* when the constructor has no inputs or the ABI has no constructor;
\* otherwise it is required and has one element per input, the i-th made of
\* the i-th input's name and type.
C11_ConstructorArgs ==
    declOut.kind = "contractDeclaration" =>
        LET inputs == ConstructorInputs(declIn[1].artifact.abi)
            args == declOut.constructorArgs
        IN /\ args.optional <=> Len(inputs) = 0
           /\ args.optional => args.elems = <<>>
           /\ ~args.optional =>
                 /\ Len(args.elems) = Len(inputs)
                 /\ \A i \in 1..Len(inputs) :
                       args.elems[i] = [name |-> inputs[i].name, type |-> inputs[i].type]

\* a constructor with two different inputs after a function entry
C11_Witness ==
    /\ declOut.kind = "contractDeclaration"
    /\ Len(declIn[1].artifact.abi) = 2
    /\ declIn[1].artifact.abi[1].type = "function"
    /\ ~declOut.constructorArgs.optional
    /\ Len(declOut.constructorArgs.elems) = 2
    /\ declOut.constructorArgs.elems[1].name = "owner"
    /\ declOut.constructorArgs.elems[2].name = "amount"

\* the bare names of the artifacts on disk, one per artifact
CurrentContractNames ==
    LET fqns == getAllFullyQualifiedNames(fs)
    IN [i \in 1..Len(fqns) |-> parseFullyQualifiedName(fqns[i]).contractName]

\* C12: once a compile run is over and none of its writes failed, the
\* declaration file on disk of every contract of the project declares entry
\* points for the bare name if and only if that name occurs exactly once
\* among the current artifacts, whichever sources the runs emitted.
C12_DeclarationsAgree ==
    (phase = "emitted" /\ pruneDone /\ Pending = {} /\ failures = 0) =>
        \A a \in project :
            DeclPath(a[1], a[2]) \in DOMAIN fs =>
                LET decl == fs[DeclPath(a[1], a[2])]
                IN decl.kind = "contractDeclaration" =>
                      /\ a[2] \in Elems(decl.deployContract)
                            <=> Count(CurrentContractNames, a[2]) = 1
                      /\ a[2] \in Elems(decl.getContractAt)
                            <=> Count(CurrentContractNames, a[2]) = 1

\* C13: once the emit override has returned, none of the writes it started
\* is still pending, so the steps the host runs next never overlap a
\* per-source write.
C13_NoWritePendingAfterReturn ==
    emitResult = "returned" => Pending = {}

\* C14 as claimed: with exactly one day elapsed since lastCheck the guard is
\* active and no request is made.
C14_GuardActiveAtOneDay ==
    (inv.active /\ Elapsed = OneDay) => (inv.guard /\ inv.calls = {})

\* C14 amended: with exactly one day elapsed the guard is not active and the
\* release list is requested, as for any longer time; one millisecond
\* less and the guard is active.
C14_GuardOpenAtOneDay ==
    /\ (inv.active /\ Elapsed = OneDay) => (~inv.guard /\ "releases" \in inv.calls)
    /\ (inv.active /\ Elapsed = OneDay - 1) => (inv.guard /\ inv.calls = {})

\* an invocation exactly one day after the check that wrote lastCheck
C14_Witness ==
    /\ inv.active
    /\ inv.readOk
    /\ inv.file.kind = "json"
    /\ Elapsed = OneDay
    /\ ~inv.guard
    /\ "releases" \in inv.calls

\* C15: no invocation raises an error to its caller, whatever the cache
\* read, the two lookups, the download and the cache write come to; when
\* the release list request yields no list there is no new-release notice
\* and the pinned release is still looked up.
C15_NeverRaises ==
    inv.active =>
        /\ ~inv.raised
        /\ (~inv.guard /\ inv.resp.kind # "list") =>
              /\ Count(inv.printed, "v2") = 0
              /\ "v3release" \in inv.calls

\* C16: the writes of one emit pass go to pairwise distinct paths, across
\* the source units and within each of them.
C16_DistinctPaths ==
    \A w \in writes, v \in writes :
        w.path = v.path => (w.unit = v.unit /\ w.idx = v.idx)

\* C17: a name that occurs two or more times in the list of contract names
\* has exactly one never entry in the global aggregate.
C17_ListedOnce ==
    artifactsDTs.kind = "globalAggregate" =>
        \A name \in ListNames :
            Count(NamesIn, name) >= 2 => Count(artifactsDTs.never, name) = 1

====
